---- MODULE Spec2Model ----
(***************************************************************************)
(* State-machine model of src/main.cpp: Flight, FlightDB<N> with its       *)
(* database vector `db`, its backtracking stack `bt`, and the operations   *)
(* append_flight, route<M>, search_flight<M>, get_distance and             *)
(* find_connecting.                                                        *)
(***************************************************************************)
EXTENDS Integers, Sequences, FiniteSets, TLC

\* ---------------------------------------------------------------- bounds
\* City names offered to append_flight and route.
Cities == {"A", "B", "C"}
\* Largest distance offered to append_flight (distances are 0..MaxDistance).
MaxDistance == 1
\* Template parameter N of FlightDB<N>.
N == 1
\* Most flights appended under Spec.
MaxFlights == 2
\* Most flights appended under SpecDepthFirst.
DeepFlights == 3

Distances == 0 .. MaxDistance
SearchMethod == {"BreadthFirst", "DepthFirst"}

\* prev holds the result of an earlier run of the same search on an equal
\* database, <<>> when there is none.
VARIABLES db, bt, pc, method, req, cur, out, dist, prev
vars == <<db, bt, pc, method, req, cur, out, dist, prev>>

\* ---------------------------------------------------------------- Flight
\* Flight(from_to, distance): the constructor clears skip.
Flight(f, t, d) == [from |-> f, to |-> t, skip |-> FALSE, distance |-> d]

\* Flight::operator==(pair): both names compare equal.
FlightEq(fl, f, t) == fl.from = f /\ fl.to = t

\* std::optional: <<>> is nullopt, <<v>> holds v.
nullopt == <<>>
make_optional(v) == <<v>>
value_or(o, d) == IF o = nullopt THEN d ELSE o[1]

\* ---------------------------------------------------------------- lookups
\* std::find_if over d from the front: index of the first match, 0 for end().
find_if(d, f, t) ==
    IF \E i \in 1 .. Len(d) : FlightEq(d[i], f, t)
    THEN CHOOSE i \in 1 .. Len(d) :
            /\ FlightEq(d[i], f, t)
            /\ \A j \in 1 .. i - 1 : ~FlightEq(d[j], f, t)
    ELSE 0

\* get_distance passing over the flights whose skip is set.
get_distance_unvisited(d, f, t) ==
    IF \E i \in 1 .. Len(d) : FlightEq(d[i], f, t) /\ ~d[i].skip
    THEN make_optional(d[CHOOSE i \in 1 .. Len(d) :
                            /\ FlightEq(d[i], f, t) /\ ~d[i].skip
                            /\ \A j \in 1 .. i - 1 :
                                  ~(FlightEq(d[j], f, t) /\ ~d[j].skip)].distance)
    ELSE nullopt

\* get_distance(from_to): distance of the first exact match, or nullopt.
get_distance(d, f, t) ==
    IF find_if(d, f, t) # 0 THEN make_optional(d[find_if(d, f, t)].distance)
    ELSE nullopt

\* find_connecting with its loop run from the back of the database: the
\* last element leaving `from` whose skip is clear.
connecting_last(d, from) ==
    IF \E i \in 1 .. Len(d) : d[i].from = from /\ ~d[i].skip
    THEN CHOOSE i \in 1 .. Len(d) :
            /\ d[i].from = from /\ ~d[i].skip
            /\ \A j \in i + 1 .. Len(d) : ~(d[j].from = from /\ ~d[j].skip)
    ELSE 0

\* The element find_connecting's loop stops at: the first one leaving `from`
\* whose skip is clear; 0 when the loop runs to the end.
connecting(d, from) ==
    IF \E i \in 1 .. Len(d) : d[i].from = from /\ ~d[i].skip
    THEN CHOOSE i \in 1 .. Len(d) :
            /\ d[i].from = from /\ ~d[i].skip
            /\ \A j \in 1 .. i - 1 : ~(d[j].from = from /\ ~d[j].skip)
    ELSE 0

\* find_connecting(from), returned value: (to, distance) of that element.
find_connecting(d, from) ==
    IF connecting(d, from) # 0
    THEN make_optional(<<d[connecting(d, from)].to, d[connecting(d, from)].distance>>)
    ELSE nullopt

\* find_connecting setting the skip of every element leaving `from`.
mark_skip_all(d, from) ==
    [i \in 1 .. Len(d) |->
        IF d[i].from = from THEN [d[i] EXCEPT !.skip = TRUE] ELSE d[i]]

\* find_connecting(from), side effect: that element's skip is set.
mark_skip(d, from) ==
    IF connecting(d, from) # 0
    THEN [d EXCEPT ![connecting(d, from)].skip = TRUE]
    ELSE d

\* ---------------------------------------------------------------- stack
\* std::stack: the top is the last element of the sequence.
top(s) == s[Len(s)]
\* pop taking two frames off the stack.
pop_two(s) == SubSeq(s, 1, Len(s) - 2)
pop(s) == SubSeq(s, 1, Len(s) - 1)
emplace(s, f, t, d) == Append(s, Flight(f, t, d))

\* route's drain loop: the names printed, top of the stack first.
RECURSIVE drain_names(_)
drain_names(s) == IF s = <<>> THEN <<>> ELSE <<top(s).from>> \o drain_names(pop(s))

\* route's drain loop: dist += t.distance for every frame.
RECURSIVE drain_dist(_)
drain_dist(s) == IF s = <<>> THEN 0 ELSE top(s).distance + drain_dist(pop(s))

\* ---------------------------------------------------------------- Init
Init ==
    /\ db = <<>>
    /\ bt = <<>>
    /\ pc = "idle"
    /\ method = "DepthFirst"
    /\ req = <<"A", "A">>
    /\ cur = <<"A", "A">>
    /\ out = <<>>
    /\ dist = 0
    /\ prev = <<>>

\* ---------------------------------------------------------------- actions
\* append_flight: db.emplace_back(from_to, distance); nothing compares the
\* size with N.
append_flight(f, t, d) ==
    /\ pc = "idle"
    /\ db' = Append(db, Flight(f, t, d))
    /\ UNCHANGED <<bt, pc, method, req, cur, out, dist, prev>>

\* route<M>(from_to) is entered and calls search_flight<M>(from_to).
route(M, f, t) ==
    /\ pc = "idle"
    /\ pc' = "search"
    /\ method' = M
    /\ req' = <<f, t>>
    /\ cur' = <<f, t>>
    /\ UNCHANGED <<db, bt, out, dist, prev>>

\* The destination test taking any exact flight, of whatever distance.
reached_has_value(d, ft) == get_distance(d, ft[1], ft[2]) # nullopt

\* The destination test of search_flight<DepthFirst>.
reached(d, ft) == value_or(get_distance(d, ft[1], ft[2]), 0) > 0

\* search_flight<DepthFirst>: destination reached, push and return to route.
DepthFirstReached ==
    /\ pc = "search" /\ method = "DepthFirst"
    /\ reached(db, cur)
    /\ bt' = emplace(bt, cur[1], cur[2], value_or(get_distance(db, cur[1], cur[2]), 0))
    /\ pc' = "drain"
    /\ UNCHANGED <<db, method, req, cur, out, dist, prev>>

\* search_flight<DepthFirst>: try another connection.
DepthFirstConnect ==
    /\ pc = "search" /\ method = "DepthFirst"
    /\ ~reached(db, cur)
    /\ find_connecting(db, cur[1]) # nullopt
    /\ LET res == find_connecting(db, cur[1])[1] IN
          /\ db' = mark_skip(db, cur[1])
          /\ bt' = emplace(bt, cur[1], cur[2], res[2])
          /\ cur' = <<res[1], cur[2]>>
    /\ UNCHANGED <<pc, method, req, out, dist, prev>>

\* The backtrack step resuming at the city the popped frame names as its
\* destination instead of its origin.
DepthFirstBacktrack_to ==
    /\ pc = "search" /\ method = "DepthFirst"
    /\ ~reached(db, cur)
    /\ find_connecting(db, cur[1]) = nullopt
    /\ bt # <<>>
    /\ cur' = <<top(bt).to, top(bt).to>>
    /\ bt' = pop(bt)
    /\ UNCHANGED <<db, pc, method, req, out, dist, prev>>

\* The backtrack step giving back the flights that leave the city it
\* abandons: their skip is cleared.
DepthFirstBacktrack_unmark ==
    /\ pc = "search" /\ method = "DepthFirst"
    /\ ~reached(db, cur)
    /\ find_connecting(db, cur[1]) = nullopt
    /\ bt # <<>>
    /\ cur' = <<top(bt).from, top(bt).to>>
    /\ bt' = pop(bt)
    /\ db' = [i \in 1 .. Len(db) |->
                IF db[i].from = cur[1] THEN [db[i] EXCEPT !.skip = FALSE] ELSE db[i]]
    /\ UNCHANGED <<pc, method, req, out, dist, prev>>

\* search_flight<DepthFirst>: backtrack, the stack holding a frame.
DepthFirstBacktrack ==
    /\ pc = "search" /\ method = "DepthFirst"
    /\ ~reached(db, cur)
    /\ find_connecting(db, cur[1]) = nullopt
    /\ bt # <<>>
    /\ cur' = <<top(bt).from, top(bt).to>>
    /\ bt' = pop(bt)
    /\ UNCHANGED <<db, pc, method, req, out, dist, prev>>

\* search_flight<DepthFirst>: backtrack, the stack empty. bt.top() and
\* bt.pop() of an empty std::stack are undefined: the build may stop the
\* program or go on with an indeterminate frame.
DepthFirstUnderflow ==
    /\ pc = "search" /\ method = "DepthFirst"
    /\ ~reached(db, cur)
    /\ find_connecting(db, cur[1]) = nullopt
    /\ bt = <<>>
    /\ pc' \in {"crashed", "indeterminate"}
    /\ UNCHANGED <<db, bt, method, req, cur, out, dist, prev>>

\* The test of one iteration of the loop of search_flight<BreadthFirst>,
\* find_connecting having returned res.
lookahead(d, res, to) ==
    res[2] > 0 /\ value_or(get_distance(d, res[1], to), 0) > 0

\* search_flight<BreadthFirst>: an iteration that commits both frames.
BreadthFirstCommit ==
    /\ pc = "search" /\ method = "BreadthFirst"
    /\ find_connecting(db, cur[1]) # nullopt
    /\ LET res == find_connecting(db, cur[1])[1] IN
          /\ lookahead(db, res, cur[2])
          /\ db' = mark_skip(db, cur[1])
          /\ bt' = emplace(emplace(bt, cur[1], cur[2], res[2]),
                           res[1], cur[2],
                           value_or(get_distance(db, res[1], cur[2]), 0))
    /\ pc' = "drain"
    /\ UNCHANGED <<method, req, cur, out, dist, prev>>

\* search_flight<BreadthFirst>: an iteration that goes round the loop again.
BreadthFirstAgain ==
    /\ pc = "search" /\ method = "BreadthFirst"
    /\ find_connecting(db, cur[1]) # nullopt
    /\ ~lookahead(db, find_connecting(db, cur[1])[1], cur[2])
    /\ db' = mark_skip(db, cur[1])
    /\ UNCHANGED <<bt, pc, method, req, cur, out, dist, prev>>

\* search_flight<BreadthFirst>: res.value() of a nullopt throws
\* std::bad_optional_access, which nothing catches.
BreadthFirstThrow ==
    /\ pc = "search" /\ method = "BreadthFirst"
    /\ find_connecting(db, cur[1]) = nullopt
    /\ pc' = "threw"
    /\ UNCHANGED <<db, bt, method, req, cur, out, dist, prev>>

\* route with a drain loop that stops one frame short of the bottom.
route_drain_keep ==
    /\ pc = "drain"
    /\ out' = drain_names(Tail(bt)) \o <<req[2]>>
    /\ dist' = drain_dist(Tail(bt))
    /\ bt' = <<bt[1]>>
    /\ pc' = "printed"
    /\ UNCHANGED <<db, method, req, cur, prev>>

\* route, after search_flight has returned: the loop drains the stack, and
\* the names, the requested destination and the distance are printed.
route_drain ==
    /\ pc = "drain"
    /\ out' = drain_names(bt) \o <<req[2]>>
    /\ dist' = drain_dist(bt)
    /\ bt' = <<>>
    /\ pc' = "printed"
    /\ UNCHANGED <<db, method, req, cur, prev>>

\* route returns: its parameter and locals are gone, db and bt stay.
route_return ==
    /\ pc = "printed"
    /\ pc' = "idle"
    /\ method' = "DepthFirst"
    /\ req' = <<"A", "A">>
    /\ cur' = <<"A", "A">>
    /\ out' = <<>>
    /\ dist' = 0
    /\ UNCHANGED <<db, bt, prev>>

Next ==
    \/ \E f \in Cities, t \in Cities, d \in Distances :
          Len(db) < MaxFlights /\ append_flight(f, t, d)
    \/ \E M \in SearchMethod, f \in Cities, t \in Cities : route(M, f, t)
    \/ DepthFirstReached
    \/ DepthFirstConnect
    \/ DepthFirstBacktrack
    \/ DepthFirstUnderflow
    \/ BreadthFirstCommit
    \/ BreadthFirstAgain
    \/ BreadthFirstThrow
    \/ route_drain
    \/ route_return

Spec == Init /\ [][Next]_vars

\* Every skip is clear.
Unvisited == \A i \in 1 .. Len(db) : ~db[i].skip

\* The depth-first method alone, the database filled before the search and
\* every search started with every skip clear.
NextDepthFirst ==
    \/ \E f \in Cities, t \in Cities, d \in Distances :
          Len(db) < DeepFlights /\ Unvisited /\ append_flight(f, t, d)
    \/ \E f \in Cities, t \in Cities : Unvisited /\ route("DepthFirst", f, t)
    \/ DepthFirstReached
    \/ DepthFirstConnect
    \/ DepthFirstBacktrack
    \/ DepthFirstUnderflow
    \/ route_drain
    \/ route_return

SpecDepthFirst == Init /\ [][NextDepthFirst]_vars

\* search_flight and route run to their end once called: the program is
\* sequential and nothing suspends it.
Running ==
    \/ DepthFirstReached
    \/ DepthFirstConnect
    \/ DepthFirstBacktrack
    \/ DepthFirstUnderflow
    \/ route_drain
    \/ route_return

FairDepthFirst == Init /\ [][NextDepthFirst]_vars /\ WF_vars(Running)

\* ================================================================ claims
\* The cities reachable from the cities of S along flights of d, S included.
RECURSIVE Closure(_, _)
Closure(d, S) ==
    LET T == S \cup {d[i].to : i \in {j \in 1 .. Len(d) : d[j].from \in S}}
    IN  IF T = S THEN S ELSE Closure(d, T)

\* b is reachable from a along one or more flights of d.
Reachable(d, a, b) ==
    \E i \in 1 .. Len(d) : d[i].from \in Closure(d, {a}) /\ d[i].to = b

\* Sum of the distances of the frames of s, bottom to top.
RECURSIVE SumDistances(_)
SumDistances(s) == IF s = <<>> THEN 0 ELSE s[1].distance + SumDistances(Tail(s))

\* The names of the origins of the frames of s, bottom to top.
Origins(s) == [k \in 1 .. Len(s) |-> s[k].from]

\* The city that hop k of the path held by the stack s leads to: the origin
\* of the next frame, the requested destination for the top frame.
HopTo(s, k) == IF k < Len(s) THEN s[k + 1].from ELSE req[2]

\* The frame fr is one of the flights of d.
IsFlight(d, fr) ==
    \E i \in 1 .. Len(d) :
        d[i].from = fr.from /\ d[i].to = fr.to /\ d[i].distance = fr.distance

\* C1: a depth-first search started with every skip clear, for a destination
\* reachable from the origin, ends with a path that starts at the origin,
\* ends at the destination and whose reported total is the sum of the
\* distances of its flights.
C1_ReachableFound ==
    (method = "DepthFirst" /\ pc # "idle" /\ Reachable(db, req[1], req[2])) =>
        /\ pc \notin {"crashed", "indeterminate"}
        /\ pc = "drain" =>
              /\ bt # <<>>
              /\ bt[1].from = req[1]
              /\ top(bt).to = req[2]
              /\ drain_dist(bt) = SumDistances(bt)

\* C2: a depth-first search never backtracks on the empty stack: the states
\* that follow top() and pop() of the empty stack are unreachable.
C2_NoUnderflow == pc \notin {"crashed", "indeterminate"}

\* C3: with N flights in the database a further append_flight leaves the
\* sequence of flights as it is: same length, same records, same order.
C3_CapacityRefused ==
    [][Len(db) >= N =>
          /\ Len(db') = Len(db)
          /\ \A i \in 1 .. Len(db) :
                /\ db'[i].from = db[i].from
                /\ db'[i].to = db[i].to
                /\ db'[i].distance = db[i].distance]_vars

\* C4: whenever route starts to search, every skip is clear.
C4_StartsUnvisited ==
    [][(pc = "idle" /\ pc' = "search") => Unvisited]_vars

\* C5: after a depth-first search that succeeded, route prints the origins
\* of the path in forward order, the requested origin first, then the
\* requested destination.
C5_ForwardOrder ==
    [][(pc = "drain" /\ pc' = "printed" /\ method = "DepthFirst") =>
          out' = Origins(bt) \o <<req[2]>>]_vars

\* C6: every frame of the depth-first search is a flight of the database
\* and each frame's destination is the next frame's origin.
C6_FramesAreFlights ==
    (method = "DepthFirst" /\ pc \in {"search", "drain"}) =>
        \A k \in 1 .. Len(bt) :
            /\ IsFlight(db, bt[k])
            /\ k < Len(bt) => bt[k].to = bt[k + 1].from

\* Hop k of the path held by bt is flight i of the database.
Uses(i, k) ==
    /\ bt[k].from = db[i].from
    /\ HopTo(bt, k) = db[i].to
    /\ bt[k].distance = db[i].distance

\* Flight i lies on a route from the requested origin to the requested
\* destination.
LeadsToDestination(i) ==
    /\ db[i].from \in Closure(db, {req[1]})
    /\ req[2] \in Closure(db, {db[i].to})

\* C7 as stated: of two flights with the same origin and different
\* destinations that both lead to the requested destination, the path a
\* depth-first search returns uses the one appended first.
C7_FirstInsertedUsed ==
    (method = "DepthFirst" /\ pc = "drain") =>
        \A i \in 1 .. Len(db), j \in 1 .. Len(db) :
            ( /\ i < j
              /\ db[i].from = db[j].from
              /\ db[i].to # db[j].to
              /\ LeadsToDestination(i)
              /\ LeadsToDestination(j) )
            => \E k \in 1 .. Len(bt) : Uses(i, k)

\* C7 as amended: in the path a depth-first search returns, the last hop is
\* the first exact flight to the requested destination, of positive
\* distance, whatever was appended before it; every other hop is a flight
\* whose skip is set and before which every flight with the same origin has
\* its skip set too, so a flight appended later is used only once the ones
\* appended earlier with that origin have been tried.
C7_TieBreak ==
    (method = "DepthFirst" /\ pc = "drain") =>
        /\ bt # <<>>
        /\ find_if(db, top(bt).from, req[2]) # 0
        /\ db[find_if(db, top(bt).from, req[2])].distance > 0
        /\ top(bt).distance = db[find_if(db, top(bt).from, req[2])].distance
        /\ \A k \in 1 .. Len(bt) - 1 :
              \E i \in 1 .. Len(db) :
                  /\ Uses(i, k)
                  /\ db[i].skip
                  /\ \A j \in 1 .. i - 1 : db[j].from = db[i].from => db[j].skip

\* C7, the case reached: a returned path with a hop that uses the earlier of
\* two flights with the same origin and different destinations, both
\* leading to the requested destination.
C7_Witness ==
    /\ method = "DepthFirst" /\ pc = "drain"
    /\ \E i \in 1 .. Len(db), j \in 1 .. Len(db) :
          /\ i < j
          /\ db[i].from = db[j].from
          /\ db[i].to # db[j].to
          /\ LeadsToDestination(i)
          /\ LeadsToDestination(j)
          /\ \E k \in 1 .. Len(bt) - 1 : Uses(i, k)

\* C8: the lookahead search lets no exception escape: the state that
\* follows the throw of std::bad_optional_access is unreachable.
C8_NoEscape == pc # "threw"

\* The first flight of d out of `from` with its skip clear whose destination
\* has an exact flight to `to`; 0 when there is none.
FirstOneHop(d, from, to) ==
    LET ok(i) == d[i].from = from /\ ~d[i].skip /\ find_if(d, d[i].to, to) # 0
    IN  IF \E i \in 1 .. Len(d) : ok(i)
        THEN CHOOSE i \in 1 .. Len(d) : ok(i) /\ \A j \in 1 .. i - 1 : ~ok(j)
        ELSE 0

\* C9: a lookahead search that succeeds commits exactly two frames, the
\* flight from the origin to the intermediate city and the exact flight from
\* the intermediate city to the destination, the intermediate city being the
\* destination of the first flight out of the origin with its skip clear
\* that has an exact flight to the destination.
C9_TwoFlights ==
    [][(method = "BreadthFirst" /\ pc = "search" /\ pc' = "drain") =>
          LET i == FirstOneHop(db, req[1], req[2]) IN
              /\ i # 0
              /\ bt' = <<Flight(req[1], db[i].to, db[i].distance),
                         Flight(db[i].to, req[2],
                                db[find_if(db, db[i].to, req[2])].distance)>>]_vars

\* C10: every depth-first search ends, with a path found or with no route
\* found. The program has no state for the second, so the search ends when
\* search_flight returns to route.
C10_Terminates == (pc = "search") ~> (pc = "drain")

\* The depth-first search has run out: the destination is not reached, no
\* flight with its skip clear leaves the current city and the stack is
\* empty, so the next step is the backtrack on the empty stack.
Exhausted ==
    /\ pc = "search" /\ method = "DepthFirst"
    /\ bt = <<>>
    /\ ~reached(db, cur)
    /\ \A i \in 1 .. Len(db) : db[i].from = cur[1] => db[i].skip

\* C11 as stated: when a depth-first search for an unreachable destination
\* has run out, every flight of the database has its skip set.
C11_AllVisited ==
    (Exhausted /\ ~Reachable(db, req[1], req[2])) =>
        \A i \in 1 .. Len(db) : db[i].skip

\* C11 as amended: when a depth-first search started with every skip clear,
\* for an unreachable destination, has run out, the flights with their skip
\* set are exactly those whose origin is reachable from the requested
\* origin; the other flights are never looked at.
C11_ReachableVisited ==
    (Exhausted /\ ~Reachable(db, req[1], req[2])) =>
        \A i \in 1 .. Len(db) :
            db[i].skip <=> db[i].from \in Closure(db, {req[1]})

\* C11, the case reached: a search for an unreachable destination has run
\* out after backtracking, with flights tried two legs from the origin and a
\* flight left untried.
C11_Witness ==
    /\ Exhausted /\ ~Reachable(db, req[1], req[2])
    /\ \E i \in 1 .. Len(db), j \in 1 .. Len(db) :
          /\ db[i].from = req[1] /\ db[i].to # req[1] /\ db[i].skip
          /\ db[j].from = db[i].to /\ db[j].skip
    /\ \E i \in 1 .. Len(db) : ~db[i].skip

\* The states in which a call of route is over: it has printed its result,
\* it has left by an exception, or it has run into the empty stack.
Ended == {"printed", "crashed", "indeterminate", "threw"}

\* A second FlightDB is built by the same append_flight calls, so that every
\* skip is clear and the stack is empty, and route is called on it with the
\* same method and the same pair of cities; the result of the first run is
\* kept in prev.
again ==
    /\ pc \in Ended
    /\ prev = <<>>
    /\ prev' = [end |-> pc, out |-> out, dist |-> dist]
    /\ db' = [i \in 1 .. Len(db) |-> Flight(db[i].from, db[i].to, db[i].distance)]
    /\ bt' = <<>>
    /\ pc' = "search"
    /\ cur' = req
    /\ out' = <<>>
    /\ dist' = 0
    /\ UNCHANGED <<method, req>>

\* Both methods, and every search run a second time on an equal database
\* with every skip clear.
NextTwice ==
    \/ \E f \in Cities, t \in Cities, d \in Distances :
          Len(db) < MaxFlights /\ prev = <<>> /\ append_flight(f, t, d)
    \/ \E M \in SearchMethod, f \in Cities, t \in Cities :
          prev = <<>> /\ Unvisited /\ route(M, f, t)
    \/ DepthFirstReached
    \/ DepthFirstConnect
    \/ DepthFirstBacktrack
    \/ DepthFirstUnderflow
    \/ BreadthFirstCommit
    \/ BreadthFirstAgain
    \/ BreadthFirstThrow
    \/ route_drain
    \/ route_return
    \/ again

SpecTwice == Init /\ [][NextTwice]_vars

\* C12: two searches on the same flights with the same method and cities,
\* each started with every skip clear, end the same way, print the same
\* names and report the same distance.
C12_SameResult ==
    (prev # <<>> /\ pc \in Ended) =>
        prev = [end |-> pc, out |-> out, dist |-> dist]

\* A step of search_flight that calls find_connecting: every step of the
\* lookahead search, and every step of the depth-first search that has not
\* reached the destination.
CallsFindConnecting ==
    /\ pc = "search"
    /\ method = "DepthFirst" => ~reached(db, cur)

\* C13: find_connecting(L) takes the first flight in insertion order that
\* leaves L with its skip clear, sets the skip of that flight and of no
\* other, and hands its destination and distance to the caller; when no such
\* flight exists no skip changes and the caller gets nothing to go on with.
C13_FindConnecting ==
    [][CallsFindConnecting =>
          IF \E i \in 1 .. Len(db) : db[i].from = cur[1] /\ ~db[i].skip
          THEN \E i \in 1 .. Len(db) :
                  /\ db[i].from = cur[1] /\ ~db[i].skip
                  /\ \A j \in 1 .. i - 1 : db[j].from = cur[1] => db[j].skip
                  /\ db' = [db EXCEPT ![i].skip = TRUE]
                  /\ method = "DepthFirst" =>
                        /\ cur'[1] = db[i].to
                        /\ bt' = Append(bt, Flight(cur[1], cur[2], db[i].distance))
                  /\ (method = "BreadthFirst" /\ pc' = "drain") =>
                        /\ bt'[1].distance = db[i].distance
                        /\ bt'[2].from = db[i].to
          ELSE /\ db' = db
               /\ pc' = "search" => bt' = pop(bt)
               /\ pc' # "drain"]_vars

\* C13, the case reached: in a lookahead search the first flight out of the
\* origin has been handed out and marked, a later one has then been handed
\* out and marked too, both in insertion order, and the search goes on.
C13_Witness ==
    /\ pc = "search" /\ method = "BreadthFirst"
    /\ \E i \in 1 .. Len(db), j \in 1 .. Len(db) :
          /\ i < j
          /\ db[i].from = cur[1] /\ db[j].from = cur[1]
          /\ db[i].skip /\ db[j].skip
          /\ db[i].to # db[j].to

\* C14: no step of either search clears a skip that is set, and a backtrack
\* step (a pop of the stack during the search) changes no skip at all, so a
\* flight taken on an abandoned branch is not handed out again.
C14_SkipMonotone ==
    [][/\ \A i \in 1 .. Len(db) : db[i].skip => db'[i].skip
       /\ (pc = "search" /\ pc' = "search" /\ bt # <<>> /\ bt' = pop(bt)) =>
             db' = db]_vars

\* C14, the case reached: a depth-first search has backtracked to its origin
\* with the stack empty, and the flight it took from there and the flight
\* it took next still have their skip set.
C14_Witness ==
    /\ pc = "search" /\ method = "DepthFirst"
    /\ bt = <<>> /\ cur = req
    /\ \E i \in 1 .. Len(db), j \in 1 .. Len(db) :
          /\ db[i].from = cur[1] /\ db[i].to # cur[1] /\ db[i].skip
          /\ db[j].from = db[i].to /\ db[j].skip
    /\ \A i \in 1 .. Len(db) : db[i].skip

\* The flights of e are those of d, in the same order, skips apart.
SameFlights(d, e) ==
    /\ Len(e) = Len(d)
    /\ \A i \in 1 .. Len(d) :
          /\ e[i].from = d[i].from
          /\ e[i].to = d[i].to
          /\ e[i].distance = d[i].distance

\* C15: no step of route or search_flight, with either method, changes the
\* number, the order, the cities or the distance of the flights; the step
\* that rests on get_distance alone changes no skip either and pushes the
\* distance of the first exact match in insertion order, whether or not
\* that flight's skip is set.
C15_FlightsUnchanged ==
    [][/\ (pc # "idle" \/ pc' # "idle") => SameFlights(db, db')
       /\ (method = "DepthFirst" /\ pc = "search" /\ pc' = "drain") =>
             /\ db' = db
             /\ \E i \in 1 .. Len(db) :
                   /\ db[i].from = cur[1] /\ db[i].to = cur[2]
                   /\ \A j \in 1 .. i - 1 :
                         ~(db[j].from = cur[1] /\ db[j].to = cur[2])
                   /\ top(bt').distance = db[i].distance]_vars

\* C15, the case reached: a depth-first search has stopped on an exact
\* flight to the destination whose skip was set.
C15_Witness ==
    /\ method = "DepthFirst" /\ pc = "drain"
    /\ \E i \in 1 .. Len(db) :
          /\ db[i].from = top(bt).from /\ db[i].to = req[2]
          /\ \A j \in 1 .. i - 1 :
                ~(db[j].from = top(bt).from /\ db[j].to = req[2])
          /\ db[i].skip

\* C16: whenever route has drained the stack and whenever no call of route
\* is active, the stack is empty, so every search starts on an empty stack.
C16_StackEmptied == pc \in {"idle", "printed"} => bt = <<>>

\* C16, the case reached: route is about to return from a search that left
\* two or more frames, all of them drained and printed.
C16_Witness == pc = "printed" /\ Len(out) >= 3 /\ bt = <<>>

\* Flight i is the first exact flight, in insertion order, from f to t.
FirstExact(i, f, t) ==
    /\ db[i].from = f /\ db[i].to = t
    /\ \A j \in 1 .. i - 1 : ~(db[j].from = f /\ db[j].to = t)

LeadsInto(k) ==
    IF k < Len(bt) THEN bt[k + 1].from
    ELSE IF pc = "drain" THEN req[2] ELSE cur[1]

\* C18: during a depth-first search the origins of the frames, bottom to
\* top, start at the requested origin and form a walk along flights of the
\* database that ends at the city the search is at, each frame carrying the
\* distance of its flight, and the search is always for the requested
\* destination; a backtrack step on a stack that holds a frame pops the top
\* frame and resumes at that frame's origin for the requested destination.
C18_StackIsWalk ==
    /\ [](( method = "DepthFirst" /\ pc \in {"search", "drain"}) =>
            /\ cur[2] = req[2]
            /\ bt = <<>> => cur[1] = req[1]
            /\ bt # <<>> => bt[1].from = req[1]
            /\ \A k \in 1 .. Len(bt) :
                  \E i \in 1 .. Len(db) :
                      /\ db[i].from = bt[k].from
                      /\ db[i].to = LeadsInto(k)
                      /\ db[i].distance = bt[k].distance)
    /\ [][(method = "DepthFirst" /\ pc = "search" /\ pc' = "search"
             /\ Len(bt') < Len(bt)) =>
            /\ bt' = pop(bt)
            /\ cur' = <<top(bt).from, req[2]>>]_vars

\* C18, the case reached: a depth-first search two flights deep has hit a
\* dead end and backtracked one frame, to a city that is not its origin,
\* with the frame that led into that city still on the stack.
C18_Witness ==
    /\ method = "DepthFirst" /\ pc = "search"
    /\ Len(bt) = 1
    /\ cur[1] # req[1]
    /\ \E i \in 1 .. Len(db) :
          db[i].from = cur[1] /\ db[i].to # cur[1] /\ db[i].skip

====
